---- MODULE Spec2Model ----
(***************************************************************************)
(* A model of go-dwarf's call-frame unwinder (unwind.go) and location      *)
(* expression evaluator (loclist.go).                                      *)
(*                                                                         *)
(* Byte streams are sequences of 0..255.  A bytes.Reader is a pair         *)
(* (sequence, offset) with a 0-based offset, as in Go.                     *)
(*                                                                         *)
(* 64-bit machine words come in two forms:                                 *)
(*  - inside the LEB128 decoders and the expression stack, a word is the   *)
(*    set of the positions of its one-bits (a subset of 0..63), so shifts, *)
(*    masks and wrap-around are exactly those of a uint64/int64;           *)
(*  - inside the unwinder, a word is the integer of [-2^63, 2^63) that is  *)
(*    congruent to it modulo 2^64 (the int64 with the same bits).  +, -    *)
(*    and * on these agree with Go's wrapping arithmetic as long as the    *)
(*    result is representable by the model checker, which stops with an    *)
(*    overflow error otherwise; unsigned comparisons go through ULess.     *)
(***************************************************************************)
EXTENDS Integers, Sequences, FiniteSets, TLC

\* fixture: the records the frame region was assembled from (see Fixtures);
\* frame, order: the fields of Data; call: the operation in progress or last
\* made, with its arguments; st: what the scan found (m), the locals of the
\* per-FDE replay (r) and the locals each of its iterations started from
\* (trace); ret: what the last completed operation returned.
VARIABLES fixture, frame, order, call, st, ret

vars == <<fixture, frame, order, call, st, ret>>

----------------------------------------------------------------------------
(* Opcodes and masks.                                                      *)

dw_CFA_nop == 0

dw_CFA_advance_loc1 == 2

dw_CFA_advance_loc2 == 3

dw_CFA_def_cfa == 12

dw_CFA_def_cfa_offset_sf == 19

dw_CFA_advance_loc == 64

dw_CFA_offset == 128

dw_OP_consts == 17

dw_OP_plus == 34

dw_OP_call_frame_cfa == 156

dw_LEB_EXTENSION == 128

dw_LEB_BITS == 127

----------------------------------------------------------------------------
(* Errors.  "" is Go's nil error.                                          *)

NoError == ""

EOF == "EOF"

ErrUnexpectedEOF == "unexpected EOF"

ErrEntryTooShort == "dwarf/unwind: entry too short"

ErrFdeTooShort == "dwarf/unwind: frame description entry too short"

ErrNotCovered == "dwarf/unwind: frame data didn't include pc"

ErrNoCie == "dwarf/unwind: No CommonInformationEntry found"

ErrVersion == "dwarf/unwind: unsupported dwarf version"

ErrAugmentation == "dwarf/unwind: unhandled dwarf augmentation"

ErrCieOp == "Unsuported CFA op"

ErrFdeOp == "dwarf/unwind: unknown op-code"

ErrInvalidLocList == "Invalid location list"

ErrUnsupportedLocOp == "Unsupported location OP"

----------------------------------------------------------------------------
(* A local variable: G applied to the value of v, which is computed once.  *)

Bind(v, G(_)) == CHOOSE y \in {G(w) : w \in {v}} : TRUE

----------------------------------------------------------------------------
(* 64-bit words as sets of bit positions.                                  *)

Bits64 == 0..63

\* The one-bits of a byte.
BitsOf(b) == {i \in 0..7 : (b \div (2^i)) % 2 = 1}

\* uint64(x) << k: bits shifted past position 63 are lost, and a shift
\* count of 64 or more gives 0.
Shl(x, k) == {i + k : i \in x} \cap Bits64

\* Byte j (0 the lowest) of the word x.
ByteAt(x, j) ==
  (IF 8 * j \in x THEN 1 ELSE 0) + (IF 8 * j + 1 \in x THEN 2 ELSE 0)
  + (IF 8 * j + 2 \in x THEN 4 ELSE 0) + (IF 8 * j + 3 \in x THEN 8 ELSE 0)
  + (IF 8 * j + 4 \in x THEN 16 ELSE 0) + (IF 8 * j + 5 \in x THEN 32 ELSE 0)
  + (IF 8 * j + 6 \in x THEN 64 ELSE 0) + (IF 8 * j + 7 \in x THEN 128 ELSE 0)

\* Addition modulo 2^64 with a carry in, byte by byte from byte j upwards.
RECURSIVE AddFrom(_, _, _, _)
AddFrom(a, b, j, carry) ==
  IF j > 7 THEN {}
  ELSE Bind(ByteAt(a, j) + ByteAt(b, j) + carry, LAMBDA n :
         {8 * j + i : i \in BitsOf(n % 256)} \cup AddFrom(a, b, j + 1, n \div 256))

Add64(a, b) == AddFrom(a, b, 0, 0)

\* a - b modulo 2^64 is a + ~b + 1.
Sub64(a, b) == AddFrom(a, Bits64 \ b, 0, 1)

\* The value of the word x read as unsigned.
SumPow(x) ==
  IF x = {} THEN 0
  ELSE ByteAt(x, 0) + 256 * (ByteAt(x, 1) + 256 * (ByteAt(x, 2) + 256 * (ByteAt(x, 3)
       + 256 * (ByteAt(x, 4) + 256 * (ByteAt(x, 5) + 256 * (ByteAt(x, 6)
       + 256 * ByteAt(x, 7)))))))

\* The int64 with the bits x.
ToInt(x) == IF 63 \in x THEN (0 - 1) - SumPow(Bits64 \ x) ELSE SumPow(x)

\* The bits of the int64 v (two's complement).
FromInt(v) ==
  IF v >= 0 THEN {i \in 0..30 : (v \div (2^i)) % 2 = 1}
  ELSE Bits64 \ {i \in 0..30 : (((0 - v) - 1) \div (2^i)) % 2 = 1}

\* a < b as unsigned 64-bit words, on integers congruent to them.
ULess(a, b) == IF (a < 0) = (b < 0) THEN a < b ELSE b < 0

----------------------------------------------------------------------------
(* loclist.go: the LEB128 decoders.  s is the reader's bytes, off its      *)
(* offset.  The result holds the reader's offset after the call.           *)

\* One run of the loop shared by both decoders (lines 250-262, 277-289):
\* n and shift when it breaks, or the error of ReadByte.
RECURSIVE LebLoop(_, _, _, _)
LebLoop(s, off, n, shift) ==
  IF off >= Len(s) THEN [err |-> EOF, n |-> n, shift |-> shift, off |-> off]
  ELSE Bind(s[off + 1], LAMBDA b :
       Bind(Shl(BitsOf(b) \cap BitsOf(dw_LEB_BITS), shift) \cup n, LAMBDA n2 :
         IF BitsOf(b) \cap BitsOf(dw_LEB_EXTENSION) = {}
         THEN [err |-> NoError, n |-> n2, shift |-> shift + 7, off |-> off + 1]
         ELSE LebLoop(s, off + 1, n2, shift + 7)))

\* A faulty variant of SignExtend: the sign is tested at bit `shift`, not shift-1.
SignExtendWrongBit(n, shift) ==
  IF n \cap Shl({0}, shift) # {} THEN Sub64(n, Shl({0}, shift)) ELSE n

\* m := int64(n); if n&(1<<(shift-1)) != 0 { m = int64(n) - int64(1<<shift) }
SignExtend(n, shift) ==
  IF n \cap Shl({0}, shift - 1) # {} THEN Sub64(n, Shl({0}, shift)) ELSE n

parseSignedLEB128(s, off) ==
  Bind(LebLoop(s, off, {}, 0), LAMBDA r :
    IF r.err # NoError THEN [val |-> {}, err |-> r.err, off |-> r.off]
    ELSE [val |-> SignExtend(r.n, r.shift), err |-> NoError, off |-> r.off])

parseUnsignedLEB128(s, off) ==
  Bind(LebLoop(s, off, {}, 0), LAMBDA r :
    IF r.err # NoError THEN [val |-> {}, err |-> r.err, off |-> r.off]
    ELSE [val |-> r.n, err |-> NoError, off |-> r.off])

----------------------------------------------------------------------------
(* loclist.go: parseLocList.  The stack holds int64 words (bit sets).      *)

\* A faulty variant of LocPlus: the sum replaces only the top entry.
LocPlusPopsOne(stack) ==
  Append(SubSeq(stack, 1, Len(stack) - 1),
         Add64(stack[Len(stack)], stack[Len(stack) - 1]))

\* a := stack[len-1]; b := stack[len-2]; stack = append(stack[:len-2], a+b)
LocPlus(stack) ==
  Append(SubSeq(stack, 1, Len(stack) - 2),
         Add64(stack[Len(stack)], stack[Len(stack) - 1]))

\* A faulty variant of LocFinish: any non-empty stack yields its bottom entry.
LocFinishNonEmpty(stack, off) ==
  IF Len(stack) >= 1
  THEN [addr |-> stack[1], err |-> NoError, stack |-> stack, off |-> off, line |-> 238]
  ELSE [addr |-> {}, err |-> ErrInvalidLocList, stack |-> stack, off |-> off, line |-> 240]

\* Lines 237-241, after the loop has seen the end of the expression.
LocFinish(stack, off) ==
  IF Len(stack) = 1
  THEN [addr |-> stack[1], err |-> NoError, stack |-> stack, off |-> off, line |-> 238]
  ELSE [addr |-> {}, err |-> ErrInvalidLocList, stack |-> stack, off |-> off, line |-> 240]

LocFail(e, stack, off, ln) ==
  [addr |-> {}, err |-> e, stack |-> stack, off |-> off, line |-> ln]

\* The loop of lines 197-235; off is the offset of the next opcode.
RECURSIVE LocLoop(_, _, _, _)
LocLoop(s, off, stack, info) ==
  IF off >= Len(s) THEN LocFinish(stack, off)
  ELSE LET instruction == s[off + 1]
       IN IF instruction = dw_OP_consts
          THEN Bind(parseSignedLEB128(s, off + 1), LAMBDA r :
                 IF r.err # NoError THEN LocFail(r.err, stack, r.off, 212)
                 ELSE Bind(Append(stack, r.val), LAMBDA pushed :
                        LocLoop(s, r.off, pushed, info)))
          ELSE IF instruction = dw_OP_plus
          THEN IF Len(stack) < 2 THEN LocFail(ErrInvalidLocList, stack, off + 1, 220)
               ELSE Bind(LocPlus(stack), LAMBDA summed :
                      LocLoop(s, off + 1, summed, info))
          ELSE IF instruction = dw_OP_call_frame_cfa
          THEN Bind(Append(stack, info.CanonicalFrameAddress), LAMBDA pushed :
                 LocLoop(s, off + 1, pushed, info))
          ELSE LocFail(ErrUnsupportedLocOp, stack, off + 1, 232)

parseLocList(locList, info) == LocLoop(locList, 0, <<>>, info)

----------------------------------------------------------------------------
(* Readers used by unwind.go.                                              *)

\* binary.Read of a w-byte field (io.ReadFull): io.EOF when no byte is
\* left, io.ErrUnexpectedEOF when fewer than w are.
ReadFixed(s, off, w) ==
  IF off >= Len(s) THEN [err |-> EOF, bytes |-> <<>>, off |-> off]
  ELSE IF off + w > Len(s) THEN [err |-> ErrUnexpectedEOF, bytes |-> <<>>, off |-> Len(s)]
  ELSE [err |-> NoError, bytes |-> SubSeq(s, off + 1, off + w), off |-> off + w]

\* The unsigned integer a field's bytes stand for under a byte order.
RECURSIVE Unsigned(_, _)
Unsigned(bytes, ord) ==
  IF bytes = <<>> THEN 0
  ELSE IF ord = "LittleEndian"
  THEN Head(bytes) + 256 * Unsigned(Tail(bytes), ord)
  ELSE bytes[Len(bytes)] + 256 * Unsigned(SubSeq(bytes, 1, Len(bytes) - 1), ord)

\* A 64-bit field as the integer congruent to it: a field with its top bit
\* set stands for its value less 2^64, reached here by complementing its
\* bytes.
Word64(bytes, ord) ==
  IF (IF ord = "LittleEndian" THEN bytes[Len(bytes)] ELSE bytes[1]) < 128
  THEN Unsigned(bytes, ord)
  ELSE (0 - 1) - Unsigned([k \in 1..Len(bytes) |-> 255 - bytes[k]], ord)

\* A signed field of 1 or 2 bytes (int8, int16).
Signed(bytes, ord) ==
  Bind(Unsigned(bytes, ord), LAMBDA u :
    IF u >= 2^(8 * Len(bytes) - 1) THEN u - 2^(8 * Len(bytes)) ELSE u)

\* bytes.Reader.Read into a buffer of n bytes at offset off: what it copies
\* (short reads leave the buffer's tail zero) or io.EOF at the end of the
\* stream.  Go releases differ on a read of zero bytes at the end of the
\* stream: zeroRead is "nil" or "EOF".
ReadInto(s, off, n, zeroRead) ==
  IF off >= Len(s) /\ ~(n = 0 /\ zeroRead = "nil")
  THEN [err |-> EOF, buf |-> [i \in 1..n |-> 0], zeroAtEnd |-> n = 0]
  ELSE [err |-> NoError, zeroAtEnd |-> n = 0 /\ off >= Len(s),
        buf |-> [i \in 1..n |-> IF off + i <= Len(s) THEN s[off + i] ELSE 0]]

\* id == 0xFFFFFFFF
IsMarker(bytes) == bytes = <<255, 255, 255, 255>>

----------------------------------------------------------------------------
(* unwind.go: CommonInformationEntry and its loading.                      *)

\* &CommonInformationEntry{}
ZeroCie ==
  [CodeAlignmentFactor |-> 0, DataAlignmentFactor |-> 0, ReturnColumn |-> 0,
   InitialLocation |-> 0, AddressRange |-> 0, Instructions |-> <<>>,
   StackRegister |-> {}, StackOffset |-> 0, ColumnValue |-> 0, order |-> ""]

\* The loop of Update; off is the offset of the next opcode.  line is the
\* source line of the return statement taken.
RECURSIVE Update(_, _, _)
Update(cie, s, off) ==
  IF off >= Len(s) THEN [cie |-> cie, err |-> EOF, off |-> off, line |-> 199]
  ELSE LET instruction == s[off + 1]
       IN IF instruction = dw_CFA_def_cfa
          THEN Bind(parseUnsignedLEB128(s, off + 1), LAMBDA reg :
                 IF reg.err # NoError
                 THEN [cie |-> cie, err |-> reg.err, off |-> reg.off, line |-> 206]
                 ELSE Bind(parseUnsignedLEB128(s, reg.off), LAMBDA val :
                        IF val.err # NoError
                        THEN [cie |-> cie, err |-> val.err, off |-> val.off, line |-> 210]
                        ELSE Bind([cie EXCEPT !.StackRegister = reg.val,
                                              !.StackOffset = ToInt(val.val)],
                                  LAMBDA set : Update(set, s, val.off))))
          ELSE IF instruction = dw_CFA_nop
          THEN Update(cie, s, off + 1)
          ELSE IF instruction = (dw_CFA_offset + cie.ReturnColumn) % 256
          THEN Bind(parseSignedLEB128(s, off + 1), LAMBDA raw :
                 IF raw.err # NoError
                 THEN [cie |-> cie, err |-> raw.err, off |-> raw.off, line |-> 222]
                 ELSE Bind([cie EXCEPT !.ColumnValue =
                                         ToInt(raw.val) * cie.DataAlignmentFactor],
                           LAMBDA set : Update(set, s, raw.off)))
          ELSE [cie |-> cie, err |-> ErrCieOp, off |-> off + 1, line |-> 228]

CieFail(e, ln, off) ==
  [cie |-> ZeroCie, err |-> e, line |-> ln, off |-> off, updLine |-> 0,
   zeroAtEnd |-> FALSE]

\* A faulty variant of CieHeaderCheck: any version and augmentation are accepted.
CieHeaderCheckNone(entry) ==
  IF Len(entry) < 5 THEN [err |-> EOF, line |-> 152, off |-> 4]
  ELSE IF Len(entry) < 6 THEN [err |-> EOF, line |-> 161, off |-> 5]
  ELSE [err |-> NoError, line |-> 0, off |-> 6]

\* Lines 150-166: the version and augmentation bytes of the entry, which
\* follow the 4-byte marker.
CieHeaderCheck(entry) ==
  IF Len(entry) < 5 THEN [err |-> EOF, line |-> 152, off |-> 4]
  ELSE IF entry[5] # 3 THEN [err |-> ErrVersion, line |-> 156, off |-> 5]
  ELSE IF Len(entry) < 6 THEN [err |-> EOF, line |-> 161, off |-> 5]
  ELSE IF entry[6] # 0 THEN [err |-> ErrAugmentation, line |-> 165, off |-> 6]
  ELSE [err |-> NoError, line |-> 0, off |-> 6]

\* Lines 168-191, on the entry's bytes from the code alignment factor on.
CieBody(entry, ord) ==
  Bind(parseUnsignedLEB128(entry, 6), LAMBDA codeAlignment :
    IF codeAlignment.err # NoError
    THEN CieFail(codeAlignment.err, 170, codeAlignment.off)
    ELSE Bind(parseSignedLEB128(entry, codeAlignment.off), LAMBDA dataAlignment :
      IF dataAlignment.err # NoError
      THEN CieFail(dataAlignment.err, 174, dataAlignment.off)
      ELSE IF dataAlignment.off >= Len(entry)
      THEN CieFail(EOF, 179, dataAlignment.off)
      ELSE Bind([ZeroCie EXCEPT
                   !.CodeAlignmentFactor = ToInt(codeAlignment.val),
                   !.DataAlignmentFactor = ToInt(dataAlignment.val),
                   !.ReturnColumn = entry[dataAlignment.off + 1]], LAMBDA cie :
           Bind(Update(cie, entry, dataAlignment.off + 1), LAMBDA u :
             IF u.err = EOF
             THEN [cie |-> u.cie, err |-> NoError, line |-> 189, off |-> u.off,
                   updLine |-> u.line, zeroAtEnd |-> FALSE]
             ELSE [cie |-> ZeroCie, err |-> u.err, line |-> 191, off |-> u.off,
                   updLine |-> u.line, zeroAtEnd |-> FALSE]))))

\* d is the Data, [frame, order], with zeroRead (see ReadInto).  zeroAtEnd
\* tells that the entry was read by a read of zero bytes at the end of the
\* region.
parseCommonInformationEntry(d, id) ==
  Bind(ReadFixed(d.frame, id, 4), LAMBDA l :
    IF l.err # NoError THEN CieFail(l.err, 131, l.off)
    ELSE Bind(Unsigned(l.bytes, d.order), LAMBDA length :
         Bind(ReadInto(d.frame, l.off, length, d.zeroRead), LAMBDA e :
         Bind(ReadFixed(e.buf, 0, 4), LAMBDA mark :
         Bind(CieHeaderCheck(e.buf), LAMBDA h :
           IF e.err # NoError
           THEN [CieFail(e.err, 137, 0) EXCEPT !.zeroAtEnd = e.zeroAtEnd]
           ELSE IF mark.err # NoError
           THEN [CieFail(mark.err, 143, mark.off) EXCEPT !.zeroAtEnd = e.zeroAtEnd]
           ELSE IF length < 4 \/ ~IsMarker(mark.bytes)
           THEN CieFail(ErrNoCie, 147, 4)
           ELSE IF h.err # NoError THEN CieFail(h.err, h.line, h.off)
           ELSE CieBody(e.buf, d.order))))))

----------------------------------------------------------------------------
(* unwind.go: CommonInformationEntry.CanonicalFrameAddress, the per-FDE    *)
(* replay.  A running replay has the locals r = [off, loc, offset]: the    *)
(* offset in cie.Instructions of the opcode the next iteration reads, loc  *)
(* and offset.  A return keeps the locals of the iteration that returned,  *)
(* so its off is the offset of the opcode that iteration read.             *)

ReplayReturn(v, e, ln, r) ==
  [kind |-> "return", val |-> v, err |-> e, line |-> ln,
   off |-> r.off, loc |-> r.loc, offset |-> r.offset]

ReplayNext(o, l, f) ==
  [kind |-> "next", off |-> o, loc |-> l, offset |-> f]

\* A faulty variant of PastTarget: the replay also stops at loc = pc.
PastTargetOrAt(loc, pc) == ~ULess(loc, pc)

\* if loc > pc { break }
PastTarget(loc, pc) == ULess(pc, loc)

\* instruction >= dw_CFA_advance_loc && instruction <= 0x80
IsInlineAdvance(instruction) ==
  instruction >= dw_CFA_advance_loc /\ instruction <= 128

\* A faulty variant of DefCfaOffsetSf: the operand is not scaled.
DefCfaOffsetSfUnscaled(cie, r) ==
  Bind(parseSignedLEB128(cie.Instructions, r.off + 1), LAMBDA delta :
    IF delta.err # NoError
    THEN ReplayReturn(0, delta.err, 254, r)
    ELSE ReplayNext(delta.off, r.loc, ToInt(delta.val)))

\* Lines 251-257: the opcode at r.off is dw_CFA_def_cfa_offset_sf.
DefCfaOffsetSf(cie, r) ==
  Bind(parseSignedLEB128(cie.Instructions, r.off + 1), LAMBDA delta :
    IF delta.err # NoError
    THEN ReplayReturn(0, delta.err, 254, r)
    ELSE ReplayNext(delta.off, r.loc, ToInt(delta.val) * cie.DataAlignmentFactor))

\* Lines 264-287: a change-of-address opcode at r.off, reached with loc <= pc.
AdvanceLoc(cie, instruction, r) ==
  IF instruction = dw_CFA_advance_loc1
  THEN Bind(ReadFixed(cie.Instructions, r.off + 1, 1), LAMBDA f :
         IF f.err # NoError
         THEN ReplayReturn(0, f.err, 268, r)
         ELSE ReplayNext(f.off,
                         r.loc + Signed(f.bytes, cie.order) * cie.CodeAlignmentFactor,
                         r.offset))
  ELSE IF instruction = dw_CFA_advance_loc2
  THEN Bind(ReadFixed(cie.Instructions, r.off + 1, 2), LAMBDA f :
         IF f.err # NoError
         THEN ReplayReturn(0, f.err, 277, r)
         ELSE ReplayNext(f.off,
                         r.loc + Signed(f.bytes, cie.order) * cie.CodeAlignmentFactor,
                         r.offset))
  ELSE IF IsInlineAdvance(instruction)
  THEN ReplayNext(r.off + 1,
                  r.loc + ((instruction - 64) % 256) * cie.CodeAlignmentFactor,
                  r.offset)
  ELSE ReplayReturn(0, ErrFdeOp, 286, r)

\* One iteration of the loop of lines 242-289, or the return of line 291
\* when the loop is left by a break (line 245 or 262, kept in `line`).
ReplayStep(cie, pc, sp, r) ==
  IF r.off >= Len(cie.Instructions)
  THEN ReplayReturn(sp + r.offset, NoError, 245, r)
  ELSE LET instruction == cie.Instructions[r.off + 1]
       IN IF instruction = dw_CFA_def_cfa_offset_sf
          THEN DefCfaOffsetSf(cie, r)
          ELSE IF PastTarget(r.loc, pc)
          THEN ReplayReturn(sp + r.offset, NoError, 262, r)
          ELSE AdvanceLoc(cie, instruction, r)

\* Lines 236-240.
ReplayStart(cie) ==
  [off |-> 0, loc |-> cie.InitialLocation, offset |-> cie.StackOffset]

\* The whole replay from the locals r.
RECURSIVE ReplayFrom(_, _, _, _)
ReplayFrom(cie, pc, sp, r) ==
  Bind(ReplayStep(cie, pc, sp, r), LAMBDA n :
    IF n.kind = "return" THEN n
    ELSE Bind([off |-> n.off, loc |-> n.loc, offset |-> n.offset], LAMBDA r2 :
           ReplayFrom(cie, pc, sp, r2)))

----------------------------------------------------------------------------
(* unwind.go: Data.CanonicalFrameAddress, the scan for the record that     *)
(* covers pc.                                                              *)

ScanFail(e, ln, at, visited) ==
  [found |-> FALSE, err |-> e, line |-> ln, at |-> at, visited |-> visited,
   cie |-> ZeroCie, cieLine |-> 0, cieOff |-> 0, updLine |-> 0,
   zeroAtEnd |-> FALSE]

\* A faulty variant of SkipBare: the seek is relative to the end of the region
\* (whence 2), not to the reader's offset.
SkipBareFromEnd(s, off, length) == Len(s) + (length - 4)

\* stream.Seek(int64(length) - 4, 1) on the reader over s, which stands
\* after the identifier, at off.
SkipBare(s, off, length) == off + (length - 4)

\* uintptr(pcstart) <= pc && pc < uintptr(pcstart+pccount)
Covers(pcstart, pccount, pc) ==
  ~ULess(pc, pcstart) /\ ULess(pc, pcstart + pccount)

\* Lines 101-113: the record at offset `at` matches; body is the offset of
\* its instructions.
Matched(d, length, idBytes, pcstart, pccount, body, at, visited) ==
  Bind(Unsigned(idBytes, d.order), LAMBDA id :
  Bind(parseCommonInformationEntry(d, id), LAMBDA c :
    IF c.err # NoError
    THEN [ScanFail(c.err, 103, at, visited) EXCEPT
            !.cieLine = c.line, !.cieOff = c.off, !.updLine = c.updLine,
            !.zeroAtEnd = c.zeroAtEnd]
    ELSE Bind(ReadInto(d.frame, body, length - 20, d.zeroRead), LAMBDA i :
      IF i.err # NoError
      THEN [ScanFail(i.err, 111, at, visited) EXCEPT
              !.cieLine = c.line, !.cieOff = c.off, !.updLine = c.updLine,
              !.zeroAtEnd = i.zeroAtEnd]
      ELSE [found |-> TRUE, err |-> NoError, line |-> 113, at |-> at,
            visited |-> visited,
            cie |-> [c.cie EXCEPT !.InitialLocation = pcstart,
                                  !.AddressRange = pccount,
                                  !.Instructions = i.buf,
                                  !.order = d.order],
            cieLine |-> c.line, cieOff |-> c.off, updLine |-> c.updLine,
            zeroAtEnd |-> i.zeroAtEnd])))

\* The loop of lines 64-117 from the record at offset `at`; visited lists
\* the offsets of the records read before it.
RECURSIVE Scan(_, _, _, _)
Scan(d, pc, at, visited) ==
  Bind(ReadFixed(d.frame, at, 4), LAMBDA l :
  Bind(Append(visited, at), LAMBDA seen :
    IF l.err # NoError THEN ScanFail(l.err, 70, at, visited)
    ELSE Bind(Unsigned(l.bytes, d.order), LAMBDA length :
         Bind(ReadFixed(d.frame, l.off, 4), LAMBDA id :
      IF length < 4 THEN ScanFail(ErrEntryTooShort, 74, at, seen)
      ELSE IF id.err # NoError THEN ScanFail(id.err, 79, at, seen)
      ELSE IF IsMarker(id.bytes)
      THEN Bind(SkipBare(d.frame, id.off, length), LAMBDA next :
             Scan(d, pc, next, seen))
      ELSE IF length < 20 THEN ScanFail(ErrFdeTooShort, 88, at, seen)
      ELSE Bind(ReadFixed(d.frame, id.off, 8), LAMBDA ps :
           Bind(ReadFixed(d.frame, ps.off, 8), LAMBDA pn :
        IF ps.err # NoError THEN ScanFail(ps.err, 93, at, seen)
        ELSE IF pn.err # NoError THEN ScanFail(pn.err, 97, at, seen)
        ELSE Bind(Word64(ps.bytes, d.order), LAMBDA pcstart :
             Bind(Word64(pn.bytes, d.order), LAMBDA pccount :
          IF Covers(pcstart, pccount, pc)
          THEN Matched(d, length, id.bytes, pcstart, pccount, pn.off, at, seen)
          ELSE Bind(pn.off + (length - 20), LAMBDA next :
                 Scan(d, pc, next, seen))))))))))

\* Data.CanonicalFrameAddress as a function: the scan, then the replay.
Query(d, pc, sp) ==
  Bind(Scan(d, pc, 0, <<>>), LAMBDA m :
    IF ~m.found THEN [val |-> 0, err |-> m.err]
    ELSE Bind(ReplayFrom(m.cie, pc, sp, ReplayStart(m.cie)), LAMBDA n :
           [val |-> n.val, err |-> n.err]))

----------------------------------------------------------------------------
(* Frame regions to query.  A fixture is the list of the records of a      *)
(* region: a common descriptor with the bytes that follow its marker, or a *)
(* frame description with the index of the record it names as its CIE.     *)

MaxFdeInstr == 4

MaxCieInstr == 3

MaxJunk == 2

Cie(body) == [kind |-> "cie", body |-> body, cie |-> 0, start |-> 0, count |-> 0]

Fde(c, start, count, instrs) ==
  [kind |-> "fde", body |-> instrs, cie |-> c, start |-> start, count |-> count]

RecSize(r) == 4 + (IF r.kind = "cie" THEN 4 ELSE 20) + Len(r.body)

RECURSIVE OffsetOf(_, _)
OffsetOf(fx, k) == IF k <= 1 THEN 0 ELSE OffsetOf(fx, k - 1) + RecSize(fx[k - 1])

\* The w bytes of the word x under a byte order.
Field(x, w, ord) ==
  [k \in 1..w |->
     LET j == IF ord = "LittleEndian" THEN k - 1 ELSE w - k
     IN SumPow({i - 8 * j : i \in x \cap ((8 * j)..(8 * j + 7))})]

EncodeRecord(fx, k, ord) ==
  LET r == fx[k]
  IN Field(FromInt(RecSize(r) - 4), 4, ord)
     \o (IF r.kind = "cie" THEN Field(0..31, 4, ord)
         ELSE Field(FromInt(OffsetOf(fx, r.cie)), 4, ord)
              \o Field(FromInt(r.start), 8, ord)
              \o Field(FromInt(r.count), 8, ord))
     \o r.body

RECURSIVE EncodeFrom(_, _, _)
EncodeFrom(fx, k, ord) ==
  IF k > Len(fx) THEN <<>> ELSE EncodeRecord(fx, k, ord) \o EncodeFrom(fx, k + 1, ord)

Encode(fx, ord) == EncodeFrom(fx, 1, ord)

ByteSeqs(A, n) == UNION {[1..k -> A] : k \in 0..n}

\* Version 3, no augmentation, code alignment 1, data alignment -8, return
\* column 16, def_cfa(7, 8).
StdCieBody == <<3, 0, 1, 120, 16, 12, 7, 8>>

\* advance_loc(0x23), def_cfa_offset_sf(2)
StdInstr == <<99, 19, 2>>

\* A frame description of [0x2000, 0x2100) naming record c.
StdFde(c, instrs) == Fde(c, 8192, 256, instrs)

\* A frame description of [0x1F00, 0x2000) naming record c.
LowFde(c, instrs) == Fde(c, 7936, 256, instrs)

TestFixture == <<Cie(StdCieBody), StdFde(1, StdInstr)>>

\* nop, advance_loc1 (or the operand 2), def_cfa_offset_sf, advance_loc(0x23),
\* 0x80.
FdeBytes == {0, 2, 19, 99, 128}

\* Every instruction stream over FdeBytes, after the standard CIE.
StreamFixtures ==
  {<<Cie(StdCieBody), StdFde(1, i)>> : i \in ByteSeqs(FdeBytes, MaxFdeInstr)}

\* Every opcode value, reached with loc = initialLocation or after an
\* advance by 0x23, alone or followed by operand bytes.
OpcodeFixtures ==
  {<<Cie(StdCieBody), StdFde(1, p \o <<b>> \o t)>> :
     p \in {<<>>, <<99>>}, b \in 0..255, t \in {<<>>, <<35, 0>>}}

\* nop, operands 7 and 8, def_cfa, a continuation byte, offset(16).
CieBytes == {0, 7, 8, 12, 129, 144}

CieBodies ==
  {<<v, a, c, d, 16, 12, 7, 8>> : v \in {2, 3, 4}, a \in {0, 1}, c \in {1, 4}, d \in {120, 124}}
  \cup {<<3, 0, 1, 120, 16>> \o i : i \in ByteSeqs(CieBytes, MaxCieInstr)}
  \cup {SubSeq(<<v, a, 129, 1, 120, 16, 12, 7, 8>>, 1, k) : v \in {2, 3}, a \in {0, 1}, k \in 0..9}

CieFixtures == {<<Cie(b), StdFde(1, StdInstr)>> : b \in CieBodies}

JunkBytes == {0, 3, 19, 255}

FewInstr == {StdInstr, <<>>, <<3, 35, 0>>, <<3, 0, 35, 19, 127>>}

LayoutFixtures ==
  {<<Cie(j), Cie(StdCieBody), StdFde(2, i)>> : j \in ByteSeqs(JunkBytes, MaxJunk), i \in FewInstr}
  \cup {<<Cie(StdCieBody), Cie(j), StdFde(1, i)>> : j \in ByteSeqs(JunkBytes, MaxJunk), i \in FewInstr}
  \cup {<<Cie(StdCieBody), StdFde(1, i), Cie(j)>> : j \in ByteSeqs(JunkBytes, MaxJunk), i \in FewInstr}
  \cup {<<Cie(StdCieBody), LowFde(1, j), StdFde(1, i)>> : j \in FewInstr, i \in FewInstr}
  \cup {<<Cie(StdCieBody), StdFde(1, i), LowFde(1, j)>> : j \in FewInstr, i \in FewInstr}
  \cup {<<Cie(StdCieBody), StdFde(1, i)>> : i \in FewInstr}
  \cup {<<>>, <<Cie(StdCieBody)>>, <<Cie(<<>>)>>}

Orders == {"LittleEndian", "BigEndian"}

Fixtures(ord) ==
  IF ord = "LittleEndian"
  THEN StreamFixtures \cup OpcodeFixtures \cup CieFixtures \cup LayoutFixtures
  ELSE LayoutFixtures

SamplePCs == {8191, 8192, 8226, 8227, 8447, 8448}

PCs(fx) == IF fx = TestFixture THEN 8180..8460 ELSE SamplePCs

SPs == {65536}

\* What Go releases make of a read of zero bytes at the end of a stream.
ZeroReads == {"nil", "EOF"}

----------------------------------------------------------------------------
(* The state machine: queries against one Data.                            *)

Idle ==
  [running |-> FALSE, m |-> ScanFail(NoError, 0, 0, <<>>), zeroRead |-> "nil",
   r |-> [off |-> 0, loc |-> 0, offset |-> 0], trace |-> <<>>]

Pending == [done |-> FALSE, val |-> 0, err |-> NoError, line |-> 0]

Returned(v, e, ln) == [done |-> TRUE, val |-> v, err |-> e, line |-> ln]

Init ==
  /\ order \in Orders
  /\ fixture \in Fixtures(order)
  /\ frame = Encode(fixture, order)
  /\ call = [op |-> "none"]
  /\ st = Idle
  /\ ret = Pending

\* Data.CanonicalFrameAddress(pc, sp) up to its return or to the call of
\* line 113, which starts the replay.  Data is never written, so queries
\* do not affect each other and a run makes one.  Only a scan that makes
\* a read of zero bytes at the end of the region depends on zeroRead.
CanonicalFrameAddress(pc, sp) ==
  /\ call.op = "none"
  /\ \E m1 \in {Scan([frame |-> frame, order |-> order, zeroRead |-> "nil"], pc, 0, <<>>)} :
     \E z \in ZeroReads :
     \E m \in {IF z = "nil" \/ ~m1.zeroAtEnd THEN m1
              ELSE Scan([frame |-> frame, order |-> order, zeroRead |-> z], pc, 0, <<>>)} :
          /\ call' = [op |-> "CanonicalFrameAddress", pc |-> pc, sp |-> sp]
          /\ st' = [running |-> m.found, m |-> m,
                    zeroRead |-> IF m1.zeroAtEnd THEN z ELSE "nil",
                    r |-> ReplayStart(m.cie), trace |-> <<>>]
          /\ ret' = IF m.found THEN Pending ELSE Returned(0, m.err, m.line)
  /\ UNCHANGED <<fixture, frame, order>>

\* One iteration of the replay loop, or its return.
Replay ==
  /\ st.running
  /\ \E n \in {ReplayStep(st.m.cie, call.pc, call.sp, st.r)} :
        IF n.kind = "next"
        THEN /\ st' = [st EXCEPT !.r = [off |-> n.off, loc |-> n.loc, offset |-> n.offset],
                                 !.trace = Append(st.trace, st.r)]
             /\ ret' = ret
        ELSE /\ st' = [st EXCEPT !.running = FALSE,
                                 !.r = [off |-> n.off, loc |-> n.loc, offset |-> n.offset]]
             /\ ret' = Returned(n.val, n.err, n.line)
  /\ UNCHANGED <<fixture, frame, order, call>>

Next ==
  \/ \E pc \in PCs(fixture), sp \in SPs : CanonicalFrameAddress(pc, sp)
  \/ Replay

Spec == Init /\ [][Next]_vars

----------------------------------------------------------------------------
(* Claims about the unwinder.                                              *)

Done == call.op = "CanonicalFrameAddress" /\ ret.done

\* The frame descriptions of a fixture that cover pc, by index.
Covering(fx, pc) ==
  {k \in 1..Len(fx) : fx[k].kind = "fde" /\ fx[k].start <= pc /\ pc < fx[k].start + fx[k].count}

\* The first of them: the record the scan should match.
MatchOf(fx, pc) == CHOOSE k \in Covering(fx, pc) : \A j \in Covering(fx, pc) : k <= j

\* The opcode a replay's locals point at.
OpAt(r) == st.m.cie.Instructions[r.off + 1]

\* The locals after the iteration that started from trace[i].
After(i) == IF i < Len(st.trace) THEN st.trace[i + 1] ELSE st.r

\* C1: for the region of one CIE (code alignment 1, data alignment -8,
\* def_cfa(reg, 8)) and one FDE of [0x2000, 0x2100) with the instructions
\* advance_loc(0x23), def_cfa_offset_sf(2), the query returns sp + 8 for pc
\* in [0x2000, 0x2023) and sp - 16 for pc in [0x2023, 0x2100).
C1_TestVector ==
  (Done /\ fixture = TestFixture /\ call.pc \in 8192..8447)
    => /\ ret.err = NoError
       /\ ret.val = call.sp + (IF call.pc < 8227 THEN 8 ELSE 0 - 16)

\* C2: a query for a pc that no frame description covers fails with the
\* not-found error and returns no address.
C2_NotCovered ==
  (Done /\ Covering(fixture, call.pc) = {} /\ \E k \in 1..Len(fixture) : fixture[k].kind = "fde")
    => ret.err = ErrNotCovered /\ ret.val = 0

\* C3: a decode step that runs out of bytes fails the query; a CIE is
\* loaded only if its initial instructions end at an instruction boundary,
\* so one that ends inside an operand of def_cfa or offset(returnColumn) is
\* not returned.
C3_TruncationFails ==
  (Done /\ st.m.updLine \in {206, 210, 222})
    => st.m.cieLine # 189 /\ ret.err # NoError

\* The opcodes C4 lists.
C4_Listed == {19, 2, 3} \cup (64..127)

\* C4: an opcode reached with loc <= pc is accepted only if it is 0x13,
\* 0x02, 0x03 or in 0x40..0x7F, the last advancing loc by (opcode & 0x3F) *
\* codeAlignmentFactor; any other opcode fails the query with the unknown
\* operation error.
C4_OnlyListedOpcodes ==
  (call.op = "CanonicalFrameAddress" /\ st.m.found)
    => /\ \A i \in 1..Len(st.trace) :
            ~ULess(call.pc, st.trace[i].loc)
              => /\ OpAt(st.trace[i]) \in C4_Listed
                 /\ OpAt(st.trace[i]) \in 64..127
                      => After(i).loc = st.trace[i].loc
                           + (OpAt(st.trace[i]) % 64) * st.m.cie.CodeAlignmentFactor
       /\ (/\ ret.done
           /\ st.r.off < Len(st.m.cie.Instructions)
           /\ ~ULess(call.pc, st.r.loc)
           /\ OpAt(st.r) \notin C4_Listed)
            => ret.err = ErrFdeOp

\* The bytes after the marker of the CIE that the record matching pc names.
CieBodyOf(fx, pc) == fx[fx[MatchOf(fx, pc)].cie].body

\* C5: a CIE whose version byte is not 3, or whose augmentation byte is not
\* 0, fails to load with the unsupported version or augmentation error; the
\* bytes after the offending one are not read, no CIE is produced and the
\* query returns the error and no address.
C5_UnsupportedCie ==
  (Done /\ Covering(fixture, call.pc) # {})
    => LET body == CieBodyOf(fixture, call.pc)
       IN /\ (Len(body) >= 1 /\ body[1] # 3)
               => /\ ret.err = ErrVersion /\ ret.val = 0
                  /\ st.m.cieOff = 5 /\ st.m.cie = ZeroCie /\ ~st.m.found
          /\ (Len(body) >= 2 /\ body[1] = 3 /\ body[2] # 0)
               => /\ ret.err = ErrAugmentation /\ ret.val = 0
                  /\ st.m.cieOff = 6 /\ st.m.cie = ZeroCie /\ ~st.m.found

\* C5's case: a version 3 CIE with the augmentation byte 1 and a complete
\* body has been refused.
C5_Witness ==
  /\ Done /\ Covering(fixture, call.pc) # {}
  /\ CieBodyOf(fixture, call.pc) = <<3, 1, 4, 124, 16, 12, 7, 8>>
  /\ ret.err = ErrAugmentation

\* Fixture fx without its record j.
Without(fx, j) ==
  [k \in 1..(Len(fx) - 1) |->
     LET r == IF k < j THEN fx[k] ELSE fx[k + 1]
     IN IF r.cie > j THEN [r EXCEPT !.cie = r.cie - 1] ELSE r]

\* The bare common descriptors ahead of the record matching pc: those it
\* does not name as its CIE.
BareAhead(fx, pc) ==
  {j \in 1..(MatchOf(fx, pc) - 1) : fx[j].kind = "cie" /\ fx[MatchOf(fx, pc)].cie # j}

\* C6: a bare common descriptor ahead of the matching FDE is skipped by its
\* declared length (the next record is read right after it) and the query
\* returns what it returns for the region without that record, whatever the
\* record's body.
C6_BareRecordSkipped ==
  (Done /\ Covering(fixture, call.pc) # {})
    => \A j \in BareAhead(fixture, call.pc) :
         /\ Len(st.m.visited) > j
         /\ st.m.visited[j] = OffsetOf(fixture, j)
         /\ st.m.visited[j + 1] = OffsetOf(fixture, j) + 8 + Len(fixture[j].body)
         /\ Query([frame |-> Encode(Without(fixture, j), order), order |-> order,
                   zeroRead |-> st.zeroRead], call.pc, call.sp)
              = [val |-> ret.val, err |-> ret.err]

\* C6's case: a query that went past a bare record with a body of marker
\* bytes and returned an address.
C6_Witness ==
  /\ Done /\ Covering(fixture, call.pc) # {}
  /\ \E j \in BareAhead(fixture, call.pc) : fixture[j].body = <<255, 255>>
  /\ ret.err = NoError /\ ret.val = call.sp - 16

\* The replay again over the first n bytes of the instructions followed by
\* the bytes t.
ReplayWithTail(n, t) ==
  LET cie == [st.m.cie EXCEPT !.Instructions = SubSeq(st.m.cie.Instructions, 1, n) \o t]
      x   == ReplayFrom(cie, call.pc, call.sp, ReplayStart(cie))
  IN [val |-> x.val, err |-> x.err]

\* C10: def_cfa_offset_sf sets offset to operand * dataAlignmentFactor
\* whenever it is reached, also with loc > pc, and leaves loc alone; no other
\* opcode is processed with loc > pc: the replay returns at the first one
\* reached so, with sp plus the offset committed so far, without an error,
\* and whatever bytes stand at or after that opcode.
C10_StoppingRule ==
  (call.op = "CanonicalFrameAddress" /\ st.m.found)
    => /\ \A i \in 1..Len(st.trace) :
            IF OpAt(st.trace[i]) = dw_CFA_def_cfa_offset_sf
            THEN /\ After(i).loc = st.trace[i].loc
                 /\ After(i).offset =
                      ToInt(parseSignedLEB128(st.m.cie.Instructions, st.trace[i].off + 1).val)
                        * st.m.cie.DataAlignmentFactor
            ELSE ~ULess(call.pc, st.trace[i].loc) /\ After(i).offset = st.trace[i].offset
       /\ (ret.done /\ ret.line = 262)
            => ULess(call.pc, st.r.loc) /\ OpAt(st.r) # dw_CFA_def_cfa_offset_sf
       /\ (/\ ret.done
           /\ st.r.off < Len(st.m.cie.Instructions)
           /\ OpAt(st.r) # dw_CFA_def_cfa_offset_sf
           /\ ULess(call.pc, st.r.loc))
            => /\ ret.err = NoError /\ ret.line = 262
               /\ ret.val = call.sp + st.r.offset
               /\ \A t \in {<<>>, <<0>>, <<2>>, <<3, 1>>, <<99, 19, 127>>, <<200>>} :
                    ReplayWithTail(st.r.off, t) = [val |-> ret.val, err |-> NoError]

\* C10's case: def_cfa_offset_sf(2) was processed with loc > pc and the
\* replay then returned at a nop, an opcode it does not know.
C10_Witness ==
  /\ Done /\ st.m.found /\ ret.line = 262 /\ ret.val = call.sp - 16
  /\ st.m.cie.Instructions = <<99, 19, 2, 0>>
  /\ \E i \in 1..Len(st.trace) :
       OpAt(st.trace[i]) = dw_CFA_def_cfa_offset_sf /\ ULess(call.pc, st.trace[i].loc)

\* The matching frame description has no instructions (its length is 20)
\* and names the standard CIE, whose def_cfa(7, 8) sets StackOffset to 8.
EmptyMatch(fx, pc) ==
  /\ Covering(fx, pc) # {}
  /\ fx[MatchOf(fx, pc)].body = <<>>
  /\ fx[MatchOf(fx, pc)].cie \in 1..Len(fx)
  /\ CieBodyOf(fx, pc) = StdCieBody

\* C11: when the frame description that matches pc has an empty instruction
\* span, the query succeeds and returns sp plus the StackOffset its CIE set,
\* wherever the record is in the region, the last record with nothing after
\* it included.
C11_EmptySpan ==
  (Done /\ EmptyMatch(fixture, call.pc))
    => (ret.err = NoError /\ ret.val = call.sp + 8)

\* The same, for the records that are followed by at least one byte: the
\* read of the empty span is then not at the end of the region.
C11_EmptySpanInside ==
  (Done /\ EmptyMatch(fixture, call.pc) /\ MatchOf(fixture, call.pc) < Len(fixture))
    => (ret.err = NoError /\ ret.val = call.sp + 8 /\ ret.line = 245)

\* The same, for the last record of a region when a read of zero bytes at
\* the end of a stream returns nil.
C11_EmptySpanLastNil ==
  (Done /\ EmptyMatch(fixture, call.pc) /\ MatchOf(fixture, call.pc) = Len(fixture)
        /\ st.zeroRead = "nil")
    => (ret.err = NoError /\ ret.val = call.sp + 8 /\ ret.line = 245)

\* The last record of a region when that read returns io.EOF: line 111
\* returns the error.
C11_EmptySpanLastEOF ==
  (Done /\ EmptyMatch(fixture, call.pc) /\ MatchOf(fixture, call.pc) = Len(fixture)
        /\ st.zeroRead = "EOF")
    => (ret.err = EOF /\ ret.val = 0 /\ ret.line = 111)

----------------------------------------------------------------------------
(* The LEB128 decoders on their own.                                       *)

SmallRange == 130

MaxLebRaw == 3

\* x >> 7 of an int64 (the sign bit is copied in from the top).
Sar7(x) == {i - 7 : i \in x \cap (7..63)} \cup (IF 63 \in x THEN 57..63 ELSE {})

\* The signed LEB128 encoding of the int64 x (DWARF's encoding algorithm):
\* seven bits at a time, lowest first, until what is left is the sign
\* extension of the bits written.
RECURSIVE EncodeSLEB(_)
EncodeSLEB(x) ==
  LET low  == ByteAt(x \cap (0..6), 0)
      rest == Sar7(x)
  IN IF (rest = {} /\ 6 \notin x) \/ (rest = Bits64 /\ 6 \in x)
     THEN <<low>>
     ELSE <<low + 128>> \o EncodeSLEB(rest)

\* The unsigned LEB128 encoding of the uint64 x.
RECURSIVE EncodeULEB(_)
EncodeULEB(x) ==
  LET low  == ByteAt(x \cap (0..6), 0)
      rest == {i - 7 : i \in x \cap (7..63)}
  IN IF rest = {} THEN <<low>> ELSE <<low + 128>> \o EncodeULEB(rest)

\* Small values, and around every power of two: 2^k, 2^(k+1) - 1, -2^k,
\* -2^k - 1, with the least and the greatest int64 among them.
WordSamples ==
  {FromInt(v) : v \in (0 - SmallRange)..SmallRange}
  \cup {{k} : k \in Bits64} \cup {0..k : k \in Bits64}
  \cup {k..63 : k \in Bits64} \cup {Bits64 \ {k} : k \in Bits64}

\* Bytes that may follow an encoded number in its stream.
LebTails == {<<>>, <<85>>, <<255, 0>>}

LebBytes == {0, 2, 64, 127, 128, 255}

InitNoData ==
  /\ fixture = <<>>
  /\ order = "LittleEndian"
  /\ frame = <<>>
  /\ call = [op |-> "none"]
  /\ st = Idle
  /\ ret = Pending

LebReturned(r) == [done |-> TRUE, val |-> r.val, err |-> r.err, off |-> r.off]

\* parseSignedLEB128 on the encoding of n followed by a tail.
DecodeSignedOfEncoded ==
  /\ call.op = "none"
  /\ \E n \in WordSamples, t \in LebTails :
       /\ call' = [op |-> "parseSignedLEB128", n |-> n, tail |-> t,
                   stream |-> EncodeSLEB(n) \o t, encoded |-> TRUE]
       /\ ret' = LebReturned(parseSignedLEB128(EncodeSLEB(n) \o t, 0))
  /\ UNCHANGED <<fixture, frame, order, st>>

\* parseUnsignedLEB128 on the encoding of n followed by a tail.
DecodeUnsignedOfEncoded ==
  /\ call.op = "none"
  /\ \E n \in WordSamples, t \in LebTails :
       /\ call' = [op |-> "parseUnsignedLEB128", n |-> n, tail |-> t,
                   stream |-> EncodeULEB(n) \o t, encoded |-> TRUE]
       /\ ret' = LebReturned(parseUnsignedLEB128(EncodeULEB(n) \o t, 0))
  /\ UNCHANGED <<fixture, frame, order, st>>

\* Either decoder on any short stream over LebBytes.
DecodeRaw ==
  /\ call.op = "none"
  /\ \E s \in ByteSeqs(LebBytes, MaxLebRaw), f \in {"parseSignedLEB128", "parseUnsignedLEB128"} :
       /\ call' = [op |-> f, n |-> {}, tail |-> <<>>, stream |-> s, encoded |-> FALSE]
       /\ ret' = LebReturned(IF f = "parseSignedLEB128" THEN parseSignedLEB128(s, 0)
                             ELSE parseUnsignedLEB128(s, 0))
  /\ UNCHANGED <<fixture, frame, order, st>>

NextLeb == DecodeSignedOfEncoded \/ DecodeUnsignedOfEncoded \/ DecodeRaw

SpecLeb == InitNoData /\ [][NextLeb]_vars

\* C9: decoding the signed LEB128 encoding of any int64 n gives n back and
\* reads exactly the encoding, for encodings of every length up to the 9 and
\* 10 bytes where 1 << shift reaches and passes bit 63.
C9_SignedRoundTrip ==
  (call.op = "parseSignedLEB128" /\ call.encoded)
    => /\ ret.err = NoError
       /\ ret.val = call.n
       /\ ret.off = Len(call.stream) - Len(call.tail)

\* C9's case: the least int64, whose encoding has 10 bytes, came back.
C9_Witness ==
  /\ call.op = "parseSignedLEB128" /\ call.encoded
  /\ call.n = {63}
  /\ call.stream = <<128, 128, 128, 128, 128, 128, 128, 128, 128, 127>>
  /\ ret.val = {63} /\ ret.err = NoError

----------------------------------------------------------------------------
(* The expression evaluator on its own.  An expression is put together     *)
(* from operations: consts(v), plus, call_frame_cfa, a byte that is no     *)
(* supported opcode and, as a last operation, a consts whose operand is    *)
(* cut short.                                                              *)

MaxLocOps == 3

LocOp(o, v) == [op |-> o, v |-> v]

LocOps ==
  {LocOp("consts", v) : v \in {5, 3, 0 - 1, 100}}
  \cup {LocOp("plus", 0), LocOp("call_frame_cfa", 0), LocOp("other", 35)}

LocExprs ==
  LET whole == UNION {[1..k -> LocOps] : k \in 0..MaxLocOps}
  IN whole \cup {Append(e, LocOp("cut", 0)) : e \in {x \in whole : Len(x) < MaxLocOps}}

LocOpBytes(o) ==
  IF o.op = "consts" THEN <<dw_OP_consts>> \o EncodeSLEB(FromInt(o.v))
  ELSE IF o.op = "plus" THEN <<dw_OP_plus>>
  ELSE IF o.op = "call_frame_cfa" THEN <<dw_OP_call_frame_cfa>>
  ELSE IF o.op = "cut" THEN <<dw_OP_consts, 128>>
  ELSE <<o.v>>

RECURSIVE EncodeLoc(_)
EncodeLoc(e) == IF e = <<>> THEN <<>> ELSE LocOpBytes(Head(e)) \o EncodeLoc(Tail(e))

\* Canonical frame addresses: 0x2000, and 16 below the top of the address
\* space.
LocCFAs == {8192, 0 - 16}

\* parseLocList(locList, locInfo{CanonicalFrameAddress: cfa})
EvaluateLocation ==
  /\ call.op = "none"
  /\ \E e \in LocExprs, cfa \in LocCFAs :
     \E r \in {parseLocList(EncodeLoc(e), [CanonicalFrameAddress |-> FromInt(cfa)])} :
       /\ call' = [op |-> "parseLocList", expr |-> e, cfa |-> cfa, locList |-> EncodeLoc(e)]
       /\ ret' = [done |-> TRUE, val |-> r.addr, err |-> r.err, line |-> r.line,
                  off |-> r.off, stack |-> r.stack]
  /\ UNCHANGED <<fixture, frame, order, st>>

NextLoc == EvaluateLocation

SpecLoc == InitNoData /\ [][NextLoc]_vars

\* The reference stack machine on integers, from operation i on: the stack
\* at the end, or the operation that fails and why.
RECURSIVE RefRun(_, _, _, _)
RefRun(e, cfa, i, stack) ==
  IF i > Len(e) THEN [fail |-> "", at |-> i, stack |-> stack]
  ELSE IF e[i].op = "consts" THEN RefRun(e, cfa, i + 1, Append(stack, e[i].v))
  ELSE IF e[i].op = "call_frame_cfa" THEN RefRun(e, cfa, i + 1, Append(stack, cfa))
  ELSE IF e[i].op = "plus"
  THEN IF Len(stack) < 2 THEN [fail |-> "underflow", at |-> i, stack |-> stack]
       ELSE RefRun(e, cfa, i + 1,
                   Append(SubSeq(stack, 1, Len(stack) - 2),
                          stack[Len(stack) - 1] + stack[Len(stack)]))
  ELSE [fail |-> e[i].op, at |-> i, stack |-> stack]

Ref == RefRun(call.expr, call.cfa, 1, <<>>)

\* C7: parseLocList returns a value only if the whole expression was read
\* and left exactly one entry on the stack; it fails with the invalid
\* expression error when the expression ends with any other depth (none for
\* the empty expression, two or more) and, at once, when a plus finds fewer
\* than two entries.
C7_ExactlyOneEntry ==
  call.op = "parseLocList"
    => /\ ret.err = NoError
            => /\ Ref.fail = "" /\ Len(Ref.stack) = 1
               /\ ret.off = Len(call.locList) /\ Len(ret.stack) = 1
       /\ (Ref.fail = "" /\ Len(Ref.stack) # 1)
            => /\ ret.err = ErrInvalidLocList /\ ret.val = {}
               /\ Len(ret.stack) = Len(Ref.stack)
       /\ Ref.fail = "underflow"
            => /\ ret.err = ErrInvalidLocList /\ ret.val = {}
               /\ ret.off = Len(EncodeLoc(SubSeq(call.expr, 1, Ref.at)))

\* C7's case: an expression that leaves two entries was refused.
C7_Witness ==
  /\ call.op = "parseLocList"
  /\ call.expr = <<LocOp("consts", 5), LocOp("call_frame_cfa", 0)>>
  /\ ret.err = ErrInvalidLocList /\ Len(ret.stack) = 2

\* C8: an expression of consts, plus and call_frame_cfa that ends with one
\* entry evaluates to what the reference stack machine computes, as an
\* unsigned address; consts(5), consts(3), plus gives 8 and call_frame_cfa
\* gives the canonical frame address 0x2000.
C8_ReferenceValue ==
  call.op = "parseLocList"
    => /\ (Ref.fail = "" /\ Len(Ref.stack) = 1)
            => ret.err = NoError /\ ret.val = FromInt(Ref.stack[1])
       /\ call.expr = <<LocOp("consts", 5), LocOp("consts", 3), LocOp("plus", 0)>>
            => ret.err = NoError /\ ret.val = {3}
       /\ (call.expr = <<LocOp("call_frame_cfa", 0)>> /\ call.cfa = 8192)
            => ret.err = NoError /\ ret.val = {13}

\* C8's case: consts(5), consts(3), plus has been evaluated to 8.
C8_Witness ==
  /\ call.op = "parseLocList"
  /\ call.locList = <<17, 5, 17, 3, 34>>
  /\ ret.err = NoError /\ ret.val = FromInt(8)

====
